---- MODULE Spec2Model ----
(***************************************************************************)
(* TrafficAnalyzer (src/traffic_analyzer/TrafficAnalyzer.py): a lazy       *)
(* frame built from CSV sources by add_paths, and the four queries total,  *)
(* per_day, top_k and min_window_sum evaluated against it.                 *)
(*                                                                         *)
(* Values that Python may hold as None are modelled as sequences of        *)
(* length at most one: <<>> is None/null, <<v>> is the value v.            *)
(* A timestamp is a number of minutes since midnight of the first day of   *)
(* the log; a formatted timestamp is the tuple of its printed fields.      *)
(***************************************************************************)
EXTENDS Integers, Sequences, FiniteSets, TLC

VARIABLES lf, build, last, offered

vars == <<lf, build, last, offered>>

\* ---------------------------------------------------------------- bounds
MaxRows == 2
MaxLines == 3
MaxK == 2

\* ------------------------------------------------------------- constants
HalfHour == 30
MinutesPerDay == 1440

Null == <<>>
Some(v) == <<v>>

\* ------------------------------------------------------- input universe
\* Half-hour slots around one midnight: 23:30 of day 0, then 00:00 and
\* 00:30 of day 1.
Times == {1410, 1440, 1470}
Counts == {1, 2}

\* A field of a line is its lexeme: a timestamp, an integer, or text that
\* is neither.
TsField(t) == [lex |-> "ts", v |-> t]
IntField(n) == [lex |-> "int", v |-> n]
JunkField == [lex |-> "junk", v |-> 0]

WellFormedLines == {<<TsField(t), IntField(c)>> : t \in Times, c \in Counts}
\* Two fields each: how a line with another number of fields is read depends
\* on the line the reader takes the column count from, and is left out.
MalformedLines ==
    { <<JunkField, IntField(1)>>,          \* unparseable timestamp
      <<TsField(1440), JunkField>> }       \* non-integer count
RawLines == WellFormedLines \cup MalformedLines

\* Sequences over S of length exactly n, and of length 1..n.
RECURSIVE SeqsOfLen(_, _)
SeqsOfLen(S, n) ==
    IF n = 0 THEN {<<>>}
    ELSE {<<x>> \o r : x \in S, r \in SeqsOfLen(S, n - 1)}

NonEmptySeqs(S, n) == UNION {SeqsOfLen(S, i) : i \in 1..n}

\* A source identifier handed to add_paths: a readable file with its lines,
\* a value of the wrong type (None), or a path that cannot be read when the
\* plan is executed.
CsvSource(ls) == [kind |-> "csv", lines |-> ls]
WrongType == [kind |-> "wrongtype", lines |-> <<>>]
Unreadable == [kind |-> "unreadable", lines |-> <<>>]

Cost(p) == IF p.kind = "csv" THEN Len(p.lines) ELSE 1

SourcesWithin(b) ==
    {CsvSource(ls) : ls \in NonEmptySeqs(RawLines, b)}
        \cup (IF b >= 1 THEN {WrongType, Unreadable} ELSE {})

\* Lists of sources whose lines number at most b.
RECURSIVE PathLists(_)
PathLists(b) ==
    {<<>>} \cup
    UNION { {<<p>> \o r : r \in PathLists(b - Cost(p))} : p \in SourcesWithin(b) }

\* ------------------------------------------------------------ the frame
\* self.lf: None, an object that is no LazyFrame (the tests assign one), or
\* a lazy plan: the lines its scans will read, in order, and whether one of
\* its scans cannot be read.
NoFrame == [kind |-> "None", lines |-> <<>>, broken |-> FALSE]
Faulty == [kind |-> "Faulty", lines |-> <<>>, broken |-> FALSE]
Lazy(ls, b) == [kind |-> "Lazy", lines |-> ls, broken |-> b]

\* pl.scan_csv(p, ...): raises for a path of the wrong type; otherwise a plan.
scan_csv(p) ==
    IF p.kind = "wrongtype" THEN [exc |-> TRUE, val |-> NoFrame]
    ELSE [exc |-> FALSE, val |-> Lazy(p.lines, p.kind = "unreadable")]

concat_replacing(f, scan) == [exc |-> FALSE, val |-> scan]

\* pl.concat([self.lf, scan], how="vertical_relaxed")
concat(f, scan) ==
    IF f.kind # "Lazy" THEN [exc |-> TRUE, val |-> f]
    ELSE [exc |-> FALSE,
          val |-> Lazy(f.lines \o scan.lines, f.broken \/ scan.broken)]

\* The loop of add_paths: the first exception leaves it.
RECURSIVE AddLoop(_, _, _)
AddLoop(f, paths, i) ==
    IF i > Len(paths) THEN [exc |-> FALSE, val |-> f]
    ELSE LET scan == scan_csv(paths[i]) IN
         IF scan.exc THEN [exc |-> TRUE, val |-> f]
         ELSE IF f.kind = "None" THEN AddLoop(scan.val, paths, i + 1)
         ELSE LET c == concat(f, scan.val) IN
              IF c.exc THEN [exc |-> TRUE, val |-> f]
              ELSE AddLoop(c.val, paths, i + 1)

TryPropagating(r, default) ==
    IF r.exc THEN [out |-> default, raised |-> TRUE]
    ELSE [out |-> r.val, raised |-> FALSE]

\* try: ... except Exception: log and return the default.
Try(r, default) ==
    IF r.exc THEN [out |-> default, raised |-> FALSE]
    ELSE [out |-> r.val, raised |-> FALSE]

\* --------------------------------------------------------- evaluation
\* The i-th field of a line, if the line has one.
Field(line, i) == IF i <= Len(line) THEN Some(line[i]) ELSE Null

\* schema_overrides with ignore_errors=True: a field that does not parse as
\* the column's type, or is missing, becomes null; the row is kept.
ParseDatetime(fld) ==
    IF fld # Null /\ fld[1].lex = "ts" THEN Some(fld[1].v) ELSE Null

ParseInt64(fld) ==
    IF fld # Null /\ fld[1].lex = "int" THEN Some(fld[1].v) ELSE Null

ParseLine(line) ==
    [dt |-> ParseDatetime(Field(line, 1)), count |-> ParseInt64(Field(line, 2))]

\* .collect(): raises when self.lf is no LazyFrame or a scan cannot be read.
collect(f) ==
    IF f.kind # "Lazy" \/ f.broken THEN [exc |-> TRUE, val |-> <<>>]
    ELSE [exc |-> FALSE, val |-> [i \in 1..Len(f.lines) |-> ParseLine(f.lines[i])]]

\* strftime("%Y-%m-%d"), strftime("%Y-%m-%dT%H:%M:%S") and isoformat(): the
\* printed fields of a timestamp; a null timestamp formats to null.
FormatDate(dt) ==
    IF dt = Null THEN Null ELSE Some(<<dt[1] \div MinutesPerDay>>)

FormatDatetime(dt) ==
    IF dt = Null THEN Null
    ELSE Some(<<dt[1] \div MinutesPerDay, (dt[1] % MinutesPerDay) \div 60, dt[1] % 60>>)

isoformat(t) == <<t \div MinutesPerDay, (t % MinutesPerDay) \div 60, t % 60>>

\* Zero-padded date strings compare as their day numbers do.
DateKey(date) == IF date = Null THEN Null ELSE Some(date[1][1])

CountRows(rows) == Len(rows)

\* pl.col("count").sum(): nulls are ignored.
RECURSIVE SumCounts(_)
SumCounts(rows) ==
    IF rows = <<>> THEN 0
    ELSE (IF Head(rows).count = Null THEN 0 ELSE Head(rows).count[1])
         + SumCounts(Tail(rows))

\* Arithmetic on nullable columns: null if an operand is null.
Minus(a, b) == IF a = Null \/ b = Null THEN Null ELSE Some(a[1] - b[1])
Plus(a, b) == IF a = Null \/ b = Null THEN Null ELSE Some(a[1] + b[1])

\* LazyFrame.sort on one key: nulls come first (nulls_last=False) whatever
\* the direction; the order of rows with equal keys is not maintained
\* (maintain_order=False), it is what the build's sort makes of it.
KeyLess(a, b, descending) ==
    IF a = Null THEN b # Null
    ELSE IF b = Null THEN FALSE
    ELSE IF descending THEN a[1] > b[1] ELSE a[1] < b[1]

StaysBefore(e, x, descending, ties) ==
    IF ties = "keep" THEN ~KeyLess(x.k, e.k, descending)
    ELSE KeyLess(e.k, x.k, descending)

Insert(sorted, x, descending, ties) ==
    LET n == Cardinality({j \in 1..Len(sorted) :
                             StaysBefore(sorted[j], x, descending, ties)})
    IN SubSeq(sorted, 1, n) \o <<x>> \o SubSeq(sorted, n + 1, Len(sorted))

RECURSIVE sort(_, _, _)
sort(keyed, descending, ties) ==
    IF keyed = <<>> THEN <<>>
    ELSE Insert(sort(SubSeq(keyed, 1, Len(keyed) - 1), descending, ties),
                keyed[Len(keyed)], descending, ties)

Rows(keyed) == [i \in 1..Len(keyed) |-> keyed[i].r]

head(s, k) == SubSeq(s, 1, IF k < Len(s) THEN k ELSE Len(s))

\* shift(-n): the value n rows further on, null past the end.
shift(col, i, n) == IF i + n <= Len(col) THEN col[i + n] ELSE Null

SetToSeq(S) == CHOOSE s \in [1..Cardinality(S) -> S] : \A x \in S : \E i \in DOMAIN s : s[i] = x

\* ------------------------------------------------------------ queries
\* total(): lines 69-79.
total_body(f) ==
    IF f.kind = "None" THEN [exc |-> FALSE, val |-> 0]
    ELSE LET c == collect(f) IN
         IF c.exc THEN [exc |-> TRUE, val |-> 0]
         ELSE [exc |-> FALSE, val |-> SumCounts(c.val)]

total(f) == Try(total_body(f), 0)

\* per_day(): lines 87-107.
DayGroups(rows) ==
    LET dates == {FormatDate(rows[i].dt) : i \in 1..Len(rows)}
        group(d) == SelectSeq(rows, LAMBDA r : FormatDate(r.dt) = d)
        ds == SetToSeq(dates)
    IN [i \in 1..Len(ds) |->
          [k |-> DateKey(ds[i]),
           r |-> [date |-> ds[i], total_cars |-> SumCounts(group(ds[i]))]]]

per_day_body(f, ties) ==
    IF f.kind = "None" THEN [exc |-> FALSE, val |-> <<>>]
    ELSE LET c == collect(f) IN
         IF c.exc THEN [exc |-> TRUE, val |-> <<>>]
         ELSE [exc |-> FALSE, val |-> Rows(sort(DayGroups(c.val), FALSE, ties))]

per_day(f, ties) == Try(per_day_body(f, ties), <<>>)

\* top_k(k): lines 117-136.
ByCount(rows) == [i \in 1..Len(rows) |-> [k |-> rows[i].count, r |-> rows[i]]]

RankedSlot(r) == [datetime |-> FormatDatetime(r.dt), count |-> r.count]

top_k_body(f, k, ties) ==
    IF f.kind = "None" THEN [exc |-> FALSE, val |-> <<>>]
    ELSE LET c == collect(f) IN
         IF c.exc THEN [exc |-> TRUE, val |-> <<>>]
         ELSE LET sorted == Rows(sort(ByCount(c.val), TRUE, ties))
                  slots == [i \in 1..Len(sorted) |-> RankedSlot(sorted[i])]
              IN [exc |-> FALSE, val |-> head(slots, k)]

top_k(f, k, ties) == Try(top_k_body(f, k, ties), <<>>)

\* min_window_sum(): lines 149-192.
ByDt(rows) == [i \in 1..Len(rows) |-> [k |-> rows[i].dt, r |-> rows[i]]]

\* with_columns of the shifted columns, on the rows sorted by dt.
Shifted(sorted) ==
    LET dts == [i \in 1..Len(sorted) |-> sorted[i].dt]
        counts == [i \in 1..Len(sorted) |-> sorted[i].count]
    IN [i \in 1..Len(sorted) |->
          [dt |-> dts[i], dt1 |-> shift(dts, i, 1), dt2 |-> shift(dts, i, 2),
           count |-> counts[i], count1 |-> shift(counts, i, 1),
           count2 |-> shift(counts, i, 2)]]

\* The filter keeps a row when both differences are 30 minutes; a null
\* difference does not pass.
Contiguous(w) ==
    /\ Minus(w.dt1, w.dt) = Some(HalfHour)
    /\ Minus(w.dt2, w.dt1) = Some(HalfHour)

BySum(ws) ==
    [i \in 1..Len(ws) |->
       [k |-> Plus(Plus(ws[i].count, ws[i].count1), ws[i].count2),
        r |-> [dt |-> ws[i].dt, dt1 |-> ws[i].dt1, dt2 |-> ws[i].dt2,
               sum_count |-> Plus(Plus(ws[i].count, ws[i].count1), ws[i].count2)]]]

FormatWindow(rows) ==
    IF rows = <<>> THEN <<>>
    ELSE [datetime_range |-> <<isoformat(rows[1].dt[1]), isoformat(rows[1].dt1[1]),
                               isoformat(rows[1].dt2[1])>>,
          total_cars |-> rows[1].sum_count]

min_window_sum_body(f, ties) ==
    IF f.kind = "None" THEN [exc |-> FALSE, val |-> <<>>]
    ELSE LET c == collect(f) IN
         IF c.exc THEN [exc |-> TRUE, val |-> <<>>]
         ELSE LET sorted == Rows(sort(ByDt(c.val), FALSE, ties))
                  windows == SelectSeq(Shifted(sorted), Contiguous)
                  result == head(Rows(sort(BySum(windows), FALSE, ties)), 1)
              IN [exc |-> FALSE, val |-> FormatWindow(result)]

min_window_sum(f, ties) == Try(min_window_sum_body(f, ties), <<>>)

\* add_paths(paths): lines 41-59.
add_paths(f, paths) ==
    LET r == AddLoop(f, paths, 1)
        t == Try([exc |-> r.exc, val |-> <<>>], <<>>)
    IN [lf |-> r.val, out |-> t.out, raised |-> t.raised]

FrameSliced(f) ==
    IF f.kind = "Lazy" /\ f.lines # <<>> THEN Lazy(Tail(f.lines), f.broken) ELSE f

\* No query assigns self.lf.
FrameAfterQuery(f) == f

\* ------------------------------------------------------------- actions
Ties == {"keep", "reverse"}
Ks == 0..MaxK
Queries == {"total", "per_day", "top_k", "min_window_sum"}

\* A call and what its caller saw: the operation, its argument k, the
\* number of lines the frame held when it was made, the value returned,
\* whether an exception reached the caller, and whether the call before it
\* was the same query with the same argument.
Call(op, k, n, out, raised, again) ==
    [op |-> op, k |-> k, n |-> n, out |-> out, raised |-> raised, again |-> again]

Again(op, k) == last.op = op /\ last.k = k

\* History: the lines of every readable source handed to add_paths so far,
\* in order, and the number of sources handed over that cannot be loaded.
LoadableLines(paths) ==
    LET n == Len(paths)
        f[i \in 0..n] ==
            IF i = 0 THEN <<>>
            ELSE IF paths[i].kind = "csv" THEN f[i - 1] \o paths[i].lines
            ELSE f[i - 1]
    IN f[n]

Failing(paths) == Cardinality({i \in 1..Len(paths) : paths[i].kind # "csv"})

Used == Len(offered.lines) + offered.failed

Init ==
    /\ lf = NoFrame
    /\ build \in Ties
    /\ last = Call("init", 0, 0, <<>>, FALSE, FALSE)
    /\ offered = [lines |-> <<>>, failed |-> 0]

AddPaths ==
    \E paths \in PathLists(MaxRows - Used) :
        LET r == add_paths(lf, paths) IN
        /\ lf' = r.lf
        /\ last' = Call("add_paths", 0, Len(lf.lines), r.out, r.raised, FALSE)
        /\ offered' = [lines |-> offered.lines \o LoadableLines(paths),
                       failed |-> offered.failed + Failing(paths)]
        /\ UNCHANGED build

Total ==
    LET r == total(lf) IN
    /\ last' = Call("total", 0, Len(lf.lines), r.out, r.raised, Again("total", 0))
    /\ lf' = FrameAfterQuery(lf)
    /\ UNCHANGED <<build, offered>>

PerDay ==
    LET r == per_day(lf, build) IN
    /\ last' = Call("per_day", 0, Len(lf.lines), r.out, r.raised, Again("per_day", 0))
    /\ lf' = FrameAfterQuery(lf)
    /\ UNCHANGED <<build, offered>>

TopK ==
    \E k \in Ks :
        LET r == top_k(lf, k, build) IN
        /\ last' = Call("top_k", k, Len(lf.lines), r.out, r.raised, Again("top_k", k))
        /\ lf' = FrameAfterQuery(lf)
        /\ UNCHANGED <<build, offered>>

MinWindowSum ==
    LET r == min_window_sum(lf, build) IN
    /\ last' = Call("min_window_sum", 0, Len(lf.lines), r.out, r.raised,
                    Again("min_window_sum", 0))
    /\ lf' = FrameAfterQuery(lf)
    /\ UNCHANGED <<build, offered>>

\* The exception tests assign an object that is no LazyFrame to a fresh
\* analyzer's lf.
InjectFaulty ==
    /\ lf = NoFrame
    /\ lf' = Faulty
    /\ last' = Call("inject", 0, 0, <<>>, FALSE, FALSE)
    /\ UNCHANGED <<build, offered>>

Next ==
    \/ AddPaths
    \/ Total
    \/ PerDay
    \/ TopK
    \/ MinWindowSum
    \/ InjectFaulty

Spec == Init /\ [][Next]_vars

\* The queries as functions of a frame: the frame is any one that a single
\* add_paths call on a fresh analyzer builds from at most MaxLines lines.
InitQuery ==
    /\ \E ls \in NonEmptySeqs(RawLines, MaxLines) :
          /\ lf = Lazy(ls, FALSE)
          /\ offered = [lines |-> ls, failed |-> 0]
    /\ build \in Ties
    /\ last = Call("add_paths", 0, 0, <<>>, FALSE, FALSE)

NextQuery ==
    \/ Total
    \/ PerDay
    \/ TopK
    \/ MinWindowSum

SpecQuery == InitQuery /\ [][NextQuery]_vars

\* ------------------------------------------------------------- claims
Readable(f) == f.kind = "Lazy" /\ ~f.broken

Parsed(f) == collect(f).val

IsPrefix(a, b) == Len(a) <= Len(b) /\ SubSeq(b, 1, Len(a)) = a

WellFormed(line) ==
    /\ Len(line) = 2
    /\ line[1].lex = "ts"
    /\ line[2].lex = "int"

AllWellFormed(ls) == \A i \in 1..Len(ls) : WellFormed(ls[i])

\* The integer a line carries in its count field, 0 if it carries none.
CountField(line) ==
    IF Len(line) >= 2 /\ line[2].lex = "int" THEN line[2].v ELSE 0

LiteralSum(ls) ==
    LET f[i \in 0..Len(ls)] == IF i = 0 THEN 0 ELSE f[i - 1] + CountField(ls[i])
    IN f[Len(ls)]

\* Printed timestamps and dates compare field by field, as their strings do.
RECURSIVE StrLess(_, _)
StrLess(a, b) ==
    IF a = <<>> \/ b = <<>> THEN a = <<>> /\ b # <<>>
    ELSE Head(a) < Head(b) \/ (Head(a) = Head(b) /\ StrLess(Tail(a), Tail(b)))

Min(a, b) == IF a < b THEN a ELSE b

\* The frame that holds every readable source handed over so far.
Ideal == IF offered.lines = <<>> THEN NoFrame ELSE Lazy(offered.lines, FALSE)

\* What each query returns on frame f, for the argument of the last call.
Answer(op, f) ==
    CASE op = "total" -> total(f).out
      [] op = "per_day" -> per_day(f, build).out
      [] op = "top_k" -> top_k(f, last.k, build).out
      [] op = "min_window_sum" -> min_window_sum(f, build).out

\* C1: when a source handed to add_paths fails to load, only that source is
\* skipped: every query made afterwards answers as for the frame of all the
\* readable sources handed over so far, whether they came in an earlier
\* call, or before or after the failing one in the same list.  Stated for
\* sources of well-formed lines, none of which fails only when the plan is
\* executed.
C1_OnlyFailingSourceSkipped ==
    (last.op \in Queries /\ lf.kind # "Faulty" /\ ~lf.broken
        /\ AllWellFormed(offered.lines))
        => last.out = Answer(last.op, Ideal)

\* C2: no public operation raises to its caller, and a query on an absent
\* dataset or one whose evaluation fails returns its default: total 0,
\* per_day [], top_k [], min_window_sum {}.
C2_NoOperationRaises ==
    /\ last.raised = FALSE
    /\ (last.op = "total" /\ (lf.kind = "None" \/ collect(lf).exc)) => last.out = 0
    /\ (last.op \in Queries \ {"total"} /\ (lf.kind = "None" \/ collect(lf).exc))
          => last.out = <<>>

C2_Witness ==
    /\ last.op = "min_window_sum"
    /\ lf.kind = "Lazy"
    /\ lf.broken
    /\ Len(lf.lines) = MaxRows - 1
    /\ last.out = <<>>

C4_PerDayOnePerDate ==
    (last.op = "per_day" /\ Readable(lf)) =>
        LET rows == Parsed(lf)
            out == last.out
            dates == {FormatDate(rows[i].dt) : i \in 1..Len(rows)} \ {Null}
            cars[i \in 0..Len(out)] ==
                IF i = 0 THEN 0 ELSE cars[i - 1] + out[i].total_cars
        IN /\ \A i \in 1..Len(out) : out[i].date # Null
           /\ {out[i].date : i \in 1..Len(out)} = dates
           /\ Len(out) = Cardinality(dates)
           /\ \A i, j \in 1..Len(out) :
                 i < j => StrLess(out[i].date[1], out[j].date[1])
           /\ \A i \in 1..Len(out) :
                 out[i].total_cars =
                     SumCounts(SelectSeq(rows, LAMBDA r : FormatDate(r.dt) = out[i].date))
           /\ cars[Len(out)] = total(lf).out

\* C5: top_k(k) returns min(k, number of records) records, sorted by count
\* descending, records of equal count by ascending datetime.  Stated for
\* sources all of whose lines are well formed and a sort that keeps rows of
\* equal count in the order it met them.
C5_TopKOrder ==
    (last.op = "top_k" /\ Readable(lf) /\ AllWellFormed(lf.lines) /\ build = "keep") =>
        LET out == last.out IN
        /\ Len(out) = Min(last.k, Len(lf.lines))
        /\ \A i, j \in 1..Len(out) :
              i < j =>
                 \/ out[i].count[1] > out[j].count[1]
                 \/ /\ out[i].count[1] = out[j].count[1]
                    /\ ~StrLess(out[j].datetime[1], out[i].datetime[1])

\* The rows in the order min_window_sum examines them, and the positions
\* at which a window of three rows, each 30 minutes after the one before,
\* starts.
InTimeOrder(f) == Rows(sort(ByDt(Parsed(f)), FALSE, build))

WindowStarts(s) ==
    {i \in 1..Len(s) :
        /\ i + 2 <= Len(s)
        /\ s[i].dt # Null /\ s[i + 1].dt # Null /\ s[i + 2].dt # Null
        /\ s[i + 1].dt[1] - s[i].dt[1] = HalfHour
        /\ s[i + 2].dt[1] - s[i + 1].dt[1] = HalfHour}

HasCounts(s, i) == s[i].count # Null /\ s[i + 1].count # Null /\ s[i + 2].count # Null

Sum3(s, i) == s[i].count[1] + s[i + 1].count[1] + s[i + 2].count[1]

\* C6: a non-empty result of min_window_sum() names three timestamps
\* t0 < t1 < t2 of records of the dataset, 30 minutes apart, and its
\* total_cars is the sum of the counts of those three records.
C6_WindowIsThreeConsecutive ==
    (last.op = "min_window_sum" /\ last.out # <<>>) =>
        LET rows == Parsed(lf)
            out == last.out
        IN /\ out.total_cars # Null
           /\ \E i, j, k \in 1..Len(rows) :
                 /\ rows[i].dt # Null /\ rows[j].dt # Null /\ rows[k].dt # Null
                 /\ out.datetime_range = <<isoformat(rows[i].dt[1]),
                                           isoformat(rows[j].dt[1]),
                                           isoformat(rows[k].dt[1])>>
                 /\ rows[j].dt[1] - rows[i].dt[1] = HalfHour
                 /\ rows[k].dt[1] - rows[j].dt[1] = HalfHour
                 /\ rows[i].count # Null /\ rows[j].count # Null /\ rows[k].count # Null
                 /\ out.total_cars[1] =
                        rows[i].count[1] + rows[j].count[1] + rows[k].count[1]

C8_MinWindowIsMinimum ==
    (last.op = "min_window_sum" /\ Readable(lf)) =>
        LET s == InTimeOrder(lf)
            W == WindowStarts(s)
            out == last.out
        IN IF W = {} THEN out = <<>>
           ELSE /\ out # <<>>
                /\ out.total_cars # Null
                /\ \E i \in W :
                      /\ out.datetime_range = <<isoformat(s[i].dt[1]),
                                                isoformat(s[i + 1].dt[1]),
                                                isoformat(s[i + 2].dt[1])>>
                      /\ HasCounts(s, i)
                      /\ out.total_cars[1] = Sum3(s, i)
                      /\ \A j \in W :
                            HasCounts(s, j) =>
                               /\ Sum3(s, i) <= Sum3(s, j)
                               /\ Sum3(s, j) = Sum3(s, i) => s[i].dt[1] <= s[j].dt[1]

\* C9: a line that fails to parse contributes no record: every query
\* answers as for the same sources with their malformed lines removed.
C9_MalformedLineSkipped ==
    (last.op \in Queries /\ Readable(lf)) =>
        last.out = Answer(last.op, Lazy(SelectSeq(lf.lines, WellFormed), FALSE))

\* C10: the stored dataset changes only in add_paths and only by appending:
\* a query leaves it as it was, and add_paths keeps every line the frame
\* held, in place.
C10_AppendOnly ==
    [][/\ last'.op \in Queries => lf' = lf
       /\ lf' # lf => last'.op \in {"add_paths", "inject"}
       /\ (last'.op = "add_paths" /\ lf.kind = "Lazy") =>
             /\ lf'.kind = "Lazy"
             /\ IsPrefix(lf.lines, lf'.lines)
             /\ lf.broken => lf'.broken
       /\ (last'.op = "add_paths" /\ lf.kind = "Faulty") => lf' = lf]_vars

C10_Witness ==
    /\ last.op = "add_paths"
    /\ last.n = 1
    /\ Len(lf.lines) = MaxRows

====
